---- MODULE Spec2Model ----
(***************************************************************************)
(* Authentication token and session lifecycle of the KYC backend:          *)
(* TokenService (token.service.ts), AuthController (auth.controller.ts),   *)
(* AuthMiddleware (auth.middleware.ts) and RateLimiterMiddleware           *)
(* (rate-limit.middleware.ts), over the Redis key space                    *)
(*   refresh_token:{userId}:{tokenId}, user_sessions:{userId},             *)
(*   blacklisted_token:{tokenId}, {keyPrefix}:{ip}.                        *)
(*                                                                         *)
(* Every Redis command is one atomic step.  A request handler is a         *)
(* sequence of such steps, in the order in which the handler hands the     *)
(* commands to the single shared Redis connection (RedisService is a       *)
(* singleton with one client, which sends commands first-in first-out).    *)
(* Time is counted in whole seconds, the unit of jwt's exp and of EXPIRE.  *)
(***************************************************************************)
EXTENDS Integers, FiniteSets, Sequences, TLC

\* ------------------------------------------------------------------ bounds
\* The max of the rate limiters; the claims are stated for any max.
GateMax == 5
\* Calls on one counter, beyond max, in one window.
MaxOver == 2
\* Token pairs that may be minted in one behaviour (two ids per pair).
MaxIssues == 2
\* Clock advances in one behaviour.
MaxTicks == 1
\* Logins that may overlap in one behaviour.
MaxLogins == 3
\* The session cap.  The source sets 50 (auth.constants.ts:4); the claims are
\* stated for a cap N, and the model is checked with this small N.
MAX_SESSIONS_PER_USER == 1

\* ------------------------------------------------------- program constants
ACCESS_TOKEN_EXPIRY == 15 * 60
REFRESH_TOKEN_EXPIRY == 7 * 24 * 60 * 60
\* process.env.JWT_ACCESS_SECRET / JWT_REFRESH_SECRET: two deployment secrets.
JWT_ACCESS_SECRET == "access-secret"
JWT_REFRESH_SECRET == "refresh-secret"
\* The secrets a verification may be attempted with.
Secrets == {JWT_ACCESS_SECRET, JWT_REFRESH_SECRET, "another-secret"}

Users == {"u1", "u2"}
\* The role each user registers with (RegisterDto.role).
RoleOf(u) == IF u = "u1" THEN "user" ELSE "admin"
Procs == {1, 2, 3}
SeqProcs == {1}
PairProcs == {1, 2}
\* Amounts by which the clock advances between two commands.
TickSteps == {ACCESS_TOKEN_EXPIRY, REFRESH_TOKEN_EXPIRY - ACCESS_TOKEN_EXPIRY}
\* A wait that ends one second after the expiryTime of a session registered
\* ACCESS_TOKEN_EXPIRY seconds before the wait began.
ExpiryTickSteps == {REFRESH_TOKEN_EXPIRY - ACCESS_TOKEN_EXPIRY + 1}
\* Amounts by which the clock advances between two calls of a rate limiter.
GateTickSteps == {1}

\* A key that exists without an expiry (what Redis reports as TTL -1).
NoTTL == 0 - 1
NoId == 0
NoUser == "none"
EmptyMap == [x \in {} |-> NoTTL]
\* streak value after an operation other than a registration touched the user.
Broken == 0 - 1

VARIABLES
  now,          \* the clock, in seconds
  ticks,        \* clock advances so far
  registered,   \* users created by register
  userRole,     \* role of each user
  nextId,       \* the next value of randomBytes(16): token ids are fresh
  minted,       \* token pairs minted by the requests so far
  sessions,     \* user_sessions:{u}: hash tokenId -> session record
  sessTTL,      \* expiry of the key user_sessions:{u}
  rt,           \* refresh_token:{u}:{tokenId} -> expiry of the key
  bl,           \* blacklisted_token:{tokenId} -> expiry of the key
  rate,         \* {keyPrefix}:{ip} -> [count, ttl]
  gate,         \* the rate limiter's requests in flight, one per slot
  calls,        \* history: gate calls on a key since its counter was absent
  past,         \* history: gate calls on a key at this instant (burst), and
                \* whether a call on the key was ever over the limit (limited)
  issued,       \* cookie pairs handed to clients
  req,          \* the requests in flight, one per slot
  blBy,         \* history: <<tokenId, operation>> that wrote a marker
  streak        \* history: registrations in a row from an empty collection

clock == <<now, ticks>>
accounts == <<registered, userRole>>
ids == <<nextId, minted>>
gateVars == <<rate, gate, calls, past>>

vars == <<now, ticks, registered, userRole, nextId, minted, sessions, sessTTL,
          rt, bl, gateVars, issued, req, blBy, streak>>

\* --------------------------------------------------------- Redis commands
\* SET key value: creates or overwrites the key and discards its expiry.
RedisSet(f, k) == [x \in (DOMAIN f) \cup {k} |-> IF x = k THEN NoTTL ELSE f[x]]

\* DEL key.
RedisDel(f, k) == [x \in (DOMAIN f) \ {k} |-> f[x]]

\* EXPIRE key seconds: no effect on a missing key; deletes it when
\* seconds <= 0; otherwise the key lives until now + seconds.
RedisExpire(f, k, seconds) ==
  IF k \notin DOMAIN f THEN f
  ELSE IF seconds <= 0 THEN RedisDel(f, k)
  ELSE [f EXCEPT ![k] = now + seconds]

\* Keys of f still alive at time t.
Unexpired(f, t) == [x \in {y \in DOMAIN f : f[y] = NoTTL \/ f[y] > t} |-> f[x]]

\* --------------------------------------------------------------- the JWTs
\* jwt.sign(payload, secret, {expiresIn}): the payload, iat, exp and a
\* signature that only the same secret verifies.
jwtSign(payload, secret, expiresIn) ==
  [userId |-> payload.userId, role |-> payload.role,
   tokenId |-> payload.tokenId, type |-> payload.type,
   iat |-> now, exp |-> now + expiresIn, sig |-> secret]

\* jwt.verify(token, secret): signature first, then expiry (now >= exp).
\* A verify that looks at the expiry before the signature.
jwtVerifyExpiryFirst(token, secret) ==
  IF now >= token.exp THEN "TokenExpiredError"
  ELSE IF token.sig # secret THEN "JsonWebTokenError"
  ELSE "ok"

jwtVerify(token, secret) ==
  IF token.sig # secret THEN "JsonWebTokenError"
  ELSE IF now >= token.exp THEN "TokenExpiredError"
  ELSE "ok"

\* An access token minted under an id of its own instead of the one passed.
generateAccessTokenOwnId(userId, role, tokenId) ==
  jwtSign([userId |-> userId, role |-> role, tokenId |-> tokenId + 1,
           type |-> "access"], JWT_ACCESS_SECRET, ACCESS_TOKEN_EXPIRY)

generateAccessToken(userId, role, tokenId) ==
  jwtSign([userId |-> userId, role |-> role, tokenId |-> tokenId,
           type |-> "access"], JWT_ACCESS_SECRET, ACCESS_TOKEN_EXPIRY)

\* generateRefreshToken draws its own random tokenId: freshId.
generateRefreshToken(userId, role, freshId) ==
  jwtSign([userId |-> userId, role |-> role, tokenId |-> freshId,
           type |-> "refresh"], JWT_REFRESH_SECRET, REFRESH_TOKEN_EXPIRY)

isTokenBlacklisted(tokenId) == tokenId \in DOMAIN bl

Failure(kind) ==
  [status |-> kind, userId |-> NoUser, role |-> "none", tokenId |-> NoId]

Granted(token) ==
  [status |-> "ok", userId |-> token.userId, role |-> token.role,
   tokenId |-> token.tokenId]

\* AuthMiddleware.verifyAccessToken: the outcome of authorize(token).
\* An authorize that decodes the token without verifying its signature or
\* its type.
verifyAccessTokenAnyKind(token) ==
  IF now >= token.exp THEN Failure("Expired")
  ELSE IF isTokenBlacklisted(token.tokenId) THEN Failure("Revoked")
  ELSE Granted(token)

verifyAccessToken(token) ==
  LET v == jwtVerify(token, JWT_ACCESS_SECRET) IN
  IF v = "TokenExpiredError" THEN Failure("Expired")
  ELSE IF v # "ok" THEN Failure("Invalid")
  ELSE IF token.type # "access" THEN Failure("Invalid")
  ELSE IF isTokenBlacklisted(token.tokenId) THEN Failure("Revoked")
  ELSE Granted(token)

\* TokenService.validateRefreshToken: the gate of rotate.
validateRefreshToken(token) ==
  LET v == jwtVerify(token, JWT_REFRESH_SECRET) IN
  IF v = "TokenExpiredError" THEN Failure("Expired")
  ELSE IF v # "ok" THEN Failure("Invalid")
  ELSE IF token.type # "refresh" THEN Failure("Invalid")
  ELSE IF isTokenBlacklisted(token.tokenId) THEN Failure("Revoked")
  ELSE Granted(token)

\* ------------------------------------------------- errors and the boundary
\* custom-errors.ts: UnauthorizedError is an AppError with statusCode 401.
UnauthorizedError(message) ==
  [name |-> "UnauthorizedError", appError |-> TRUE, statusCode |-> 401,
   message |-> message]
\* Errors that are not AppError: jsonwebtoken's JsonWebTokenError (a bad
\* signature) and the rejection of a Redis command.
JsonWebTokenError ==
  [name |-> "JsonWebTokenError", appError |-> FALSE, statusCode |-> 0,
   message |-> "invalid signature"]
StoreError ==
  [name |-> "StoreError", appError |-> FALSE, statusCode |-> 0,
   message |-> "store unavailable"]
NoError ==
  [name |-> "none", appError |-> FALSE, statusCode |-> 0, message |-> "none"]

\* errorHandler, lines 52-72 and 96: an AppError answers with its own status
\* and message, any other error with 500 "Internal Server Error".
errorHandler(err) ==
  IF err.appError
  THEN [statusCode |-> err.statusCode, message |-> err.message]
  ELSE [statusCode |-> 500, message |-> "Internal Server Error"]

\* What AuthMiddleware.verifyAccessToken throws: the catch (lines 67-73)
\* turns TokenExpiredError into UnauthorizedError and rethrows the rest.
verifyAccessTokenThrows(token) ==
  LET v == jwtVerify(token, JWT_ACCESS_SECRET) IN
  IF v = "TokenExpiredError" THEN UnauthorizedError("Access token expired")
  ELSE IF v # "ok" THEN JsonWebTokenError
  ELSE IF token.type # "access" THEN UnauthorizedError("Invalid token type")
  ELSE IF isTokenBlacklisted(token.tokenId)
       THEN UnauthorizedError("Token has been invalidated")
  ELSE NoError

\* The response the client receives when authorize rejects the token.
AuthorizeResponse(token) == errorHandler(verifyAccessTokenThrows(token))

\* ------------------------------------------------------- the store is down
\* isTokenBlacklisted, lines 118-124, when client.get rejects: nothing in it
\* catches, so the await throws the store's error.
\* A lookup that swallows the rejection and answers "not blacklisted".
isTokenBlacklistedSwallows(tokenId) == "false"
isTokenBlacklistedRejects(tokenId) == "throws"

\* jwt.verify and the type check precede the lookup: it is reached only by
\* a token they accept.
LookupReached(token, secret, kind) ==
  jwtVerify(token, secret) = "ok" /\ token.type = kind

\* verifyAccessToken for a token that reaches the lookup while GET rejects:
\* the catch (lines 67-73) rethrows the store's error, next() is not called.
verifyAccessTokenOutage(token) ==
  IF isTokenBlacklistedRejects(token.tokenId) = "throws"
  THEN Failure("StoreError")
  ELSE Granted(token)

\* validateRefreshToken likewise (its catch, lines 143-146, rethrows), and
\* verifyRefreshToken (lines 96-99) answers UnauthorizedError.
validateRefreshTokenOutage(token) ==
  IF isTokenBlacklistedRejects(token.tokenId) = "throws"
  THEN Failure("Unauthorized")
  ELSE Granted(token)

\* TokenService.getUserSessions / getUserSessionCount (HGETALL).
\* A listing that returns the sessions of every user.
getUserSessionsAnyUser(u) == UNION {DOMAIN sessions[v] : v \in Users}
getUserSessions(u) == DOMAIN sessions[u]
getUserSessionCount(u) == Cardinality(DOMAIN sessions[u])

AccessTokens == {c.access : c \in issued}
RefreshTokens == {c.refresh : c \in issued}
Tokens == AccessTokens \cup RefreshTokens

\* ------------------------------------------------------------ the requests
NoToken ==
  [userId |-> NoUser, role |-> "none", tokenId |-> NoId, type |-> "none",
   iat |-> 0, exp |-> 0, sig |-> "none"]

Idle ==
  [op |-> "idle", pc |-> "idle", user |-> NoUser, role |-> "none",
   old |-> NoId, sid |-> NoId, acc |-> NoToken, ref |-> NoToken,
   snap |-> {}, todo |-> {}, res |-> "none",
   lookup |-> "none", http |-> 0, msg |-> "none", gone |-> {}]

Free(p) == req[p].pc = "idle"

Finish(r, result) == [r EXCEPT !.pc = "done", !.res = result]

\* --------------------------------------------------------- the rate limiter
\* The limiters built by createRateLimiter(config) and the client addresses.
Limiters ==
  {[keyPrefix |-> "auth", windowMs |-> 1000, max |-> GateMax],
   [keyPrefix |-> "reports", windowMs |-> 2000, max |-> GateMax]}
Ips == {"ip1"}
\* rate-limit.middleware.ts, line 28: `${config.keyPrefix}:${req.ip}`.
RateKey(config, ip) == <<config.keyPrefix, ip>>
RateKeys == {RateKey(c, ip) : c \in Limiters, ip \in Ips}

GateIdle ==
  [pc |-> "idle", config |-> [keyPrefix |-> "none", windowMs |-> 0, max |-> 0],
   ip |-> "none", requests |-> 0, call |-> 0, remaining |-> 0,
   res |-> "none", retryAfter |-> 0, store |-> "ok"]

Init ==
  /\ now = 0
  /\ ticks = 0
  /\ registered = {}
  /\ userRole = [u \in Users |-> "none"]
  /\ nextId = 1
  /\ minted = 0
  /\ sessions = [u \in Users |-> EmptyMap]
  /\ sessTTL = [u \in Users |-> NoTTL]
  /\ rt = EmptyMap
  /\ bl = EmptyMap
  /\ rate = EmptyMap
  /\ gate = [p \in Procs |-> GateIdle]
  /\ calls = [k \in RateKeys |-> 0]
  /\ past = [k \in RateKeys |-> [burst |-> 0, limited |-> FALSE]]
  /\ issued = {}
  /\ req = [p \in Procs |-> Idle]
  /\ blBy = {}
  /\ streak = [u \in Users |-> 0]

\* -------------------------------------------------------------- the clock
\* Time passes; Redis drops every key whose expiry has been reached.
Advance(d) ==
  /\ ticks < MaxTicks
  /\ \A p \in Procs : Free(p) /\ gate[p].pc = "idle"
  /\ d > 0
  /\   /\ now' = now + d
       /\ bl' = Unexpired(bl, now + d)
       /\ rt' = Unexpired(rt, now + d)
       /\ rate' = [k \in {y \in DOMAIN rate :
                            rate[y].ttl = NoTTL \/ rate[y].ttl > now + d}
                     |-> rate[k]]
       /\ calls' = [k \in DOMAIN calls |->
                      IF k \in DOMAIN rate /\ rate[k].ttl # NoTTL
                         /\ rate[k].ttl <= now + d
                      THEN 0 ELSE calls[k]]
       /\ past' = [k \in DOMAIN past |-> [past[k] EXCEPT !.burst = 0]]
       /\ LET gone == {u \in Users :
                      sessTTL[u] # NoTTL /\ sessTTL[u] <= now + d}
          IN /\ sessions' = [u \in Users |->
                               IF u \in gone THEN EmptyMap ELSE sessions[u]]
             /\ sessTTL' = [u \in Users |->
                              IF u \in gone THEN NoTTL ELSE sessTTL[u]]
             /\ streak' = [u \in Users |-> IF u \in gone THEN 0 ELSE streak[u]]
  /\ ticks' = ticks + 1
  /\ UNCHANGED <<accounts, ids, issued, req, blBy, gate>>

Tick == \E d \in TickSteps : Advance(d)

ExpiryTick == \E d \in ExpiryTickSteps : Advance(d)

\* Less than the window of a limiter passes between two of its calls.
GateTick == \E d \in GateTickSteps : Advance(d)

\* ------------------------------------------- login, register: the minting
\* AuthController.login, line 147: the capacity check.
\* The check with > for >=.
CapacityReachedStrict(sessionCount) == sessionCount > MAX_SESSIONS_PER_USER
CapacityReached(sessionCount) == sessionCount >= MAX_SESSIONS_PER_USER

\* The request record after the handler has drawn tokenId (randomBytes) and
\* minted the pair; generateRefreshToken draws the next random id.
Minted(op, u, role, old) ==
  [Idle EXCEPT !.op = op, !.pc = "setRt", !.user = u, !.role = role,
               !.old = old, !.sid = nextId,
               !.acc = generateAccessToken(u, role, nextId),
               !.ref = generateRefreshToken(u, role, nextId + 1)]

CanMint == minted < MaxIssues

\* The streak counts up to one registration past the cap, all the claims ask.
Attempt(u) ==
  IF streak[u] = Broken \/ streak[u] > MAX_SESSIONS_PER_USER THEN Broken
  ELSE streak[u] + 1

\* AuthController.register: createUser, then a session with no capacity check.
Register(p, u) ==
  /\ Free(p)
  /\ u \notin registered
  /\ CanMint
  /\ registered' = registered \cup {u}
  /\ userRole' = [userRole EXCEPT ![u] = RoleOf(u)]
  /\ req' = [req EXCEPT ![p] = Minted("register", u, RoleOf(u), NoId)]
  /\ nextId' = nextId + 2 /\ minted' = minted + 1
  /\ UNCHANGED <<clock, sessions, sessTTL, rt, bl, gateVars, issued, blBy,
                 streak>>

\* Lines 146-149: the login throws before tokenId is drawn.
\* A login that mints the access token before it checks the capacity.
RejectedLoginMinted(u) ==
  Finish([Idle EXCEPT !.op = "login", !.user = u, !.role = userRole[u],
                      !.acc = generateAccessToken(u, userRole[u], nextId)],
         "CapacityExceeded")
RejectedLogin(u) ==
  Finish([Idle EXCEPT !.op = "login", !.user = u, !.role = userRole[u]],
         "CapacityExceeded")

\* AuthController.login up to the minting: HGETALL for the count, the check,
\* then the token pair.  The credential checks before it read only the user.
Login(p, u) ==
  /\ Free(p)
  /\ u \in registered
  /\ IF CapacityReached(getUserSessionCount(u))
     THEN /\ req' = [req EXCEPT ![p] = RejectedLogin(u)]
          /\ streak' = [streak EXCEPT ![u] = Attempt(u)]
          /\ UNCHANGED ids
     ELSE /\ CanMint
          /\ req' = [req EXCEPT ![p] = Minted("login", u, userRole[u], NoId)]
          /\ nextId' = nextId + 2 /\ minted' = minted + 1
          /\ UNCHANGED streak
  /\ UNCHANGED <<clock, accounts, sessions, sessTTL, rt, bl, gateVars,
                 issued, blBy>>

\* ----------------------------- storeRefreshToken and storeUserSession
\* Promise.all([storeRefreshToken, storeUserSession]) queues SET, HSET and
\* then, as each await resumes, EXPIRE refresh_token and EXPIRE user_sessions.
StoreSetRt(p) ==
  LET r == req[p] IN
  /\ r.pc = "setRt"
  /\ rt' = RedisSet(rt, <<r.user, r.sid>>)
  /\ req' = [req EXCEPT ![p].pc = "hSet"]
  /\ UNCHANGED <<clock, accounts, ids, sessions, sessTTL, bl, gateVars,
                 issued, blBy, streak>>

\* HSET user_sessions:{u} tokenId session: a new hash has no expiry, an
\* existing one keeps its own.
hSet(h, field, value) ==
  [x \in (DOMAIN h) \cup {field} |-> IF x = field THEN value ELSE h[x]]

SessionInfo(r) ==
  [lastUsed |-> r.acc.iat, expiryTime |-> r.acc.iat + REFRESH_TOKEN_EXPIRY]

StoreHSet(p) ==
  LET r == req[p] IN
  /\ r.pc = "hSet"
  /\ sessions' = [sessions EXCEPT
                    ![r.user] = hSet(sessions[r.user], r.sid, SessionInfo(r))]
  /\ req' = [req EXCEPT ![p].pc = "expRt"]
  /\ streak' = [streak EXCEPT ![r.user] =
                  IF r.op = "refresh" THEN Broken ELSE @]
  /\ UNCHANGED <<clock, accounts, ids, sessTTL, rt, bl, gateVars, issued,
                 blBy>>

StoreExpireRt(p) ==
  LET r == req[p] IN
  /\ r.pc = "expRt"
  /\ rt' = RedisExpire(rt, <<r.user, r.sid>>, REFRESH_TOKEN_EXPIRY)
  /\ req' = [req EXCEPT ![p].pc = "expSess"]
  /\ UNCHANGED <<clock, accounts, ids, sessions, sessTTL, bl, gateVars,
                 issued, blBy, streak>>

\* EXPIRE user_sessions:{u}; then the handler sets the two cookies.
StoreExpireSessions(p) ==
  LET r == req[p] IN
  /\ r.pc = "expSess"
  /\ sessTTL' = [sessTTL EXCEPT ![r.user] =
                   IF DOMAIN sessions[r.user] = {} THEN NoTTL
                   ELSE now + REFRESH_TOKEN_EXPIRY]
  /\ req' = [req EXCEPT ![p] = Finish(r, "ok")]
  /\ issued' = issued \cup
                 {[by |-> r.op, user |-> r.user, role |-> r.role,
                   sid |-> r.sid, access |-> r.acc, refresh |-> r.ref]}
  /\ streak' = [streak EXCEPT ![r.user] =
                  IF r.op = "refresh" THEN Broken ELSE Attempt(r.user)]
  /\ UNCHANGED <<clock, accounts, ids, sessions, rt, bl, gateVars, blBy>>

\* ------------------------------------------------------------------ rotate
\* AuthController.refresh, lines 258-261: the id that refresh blacklists and
\* the lifetime of the marker.
\* A refresh that blacklists the id it has just drawn.
RotateTargetNew(oldTokenId, newTokenId) == newTokenId
RotateTarget(oldTokenId, newTokenId) == oldTokenId
\* The marker of a refresh id written with the access lifetime.
RotateBlacklistTTLShort == ACCESS_TOKEN_EXPIRY
RotateBlacklistTTL == REFRESH_TOKEN_EXPIRY

\* POST /refresh: verifyRefreshToken (jwt.verify, type, GET blacklisted_token)
\* puts the refresh token's claims in req.user; refresh then mints the new
\* pair under a new random tokenId.  snap is history: the sessions the user
\* had when the request arrived.
Refresh(p, token) ==
  LET d == validateRefreshToken(token) IN
  /\ Free(p)
  /\ token \in Tokens
  /\ IF d.status # "ok"
     THEN /\ req' = [req EXCEPT ![p] =
                       Finish([Idle EXCEPT !.op = "refresh"], "Unauthorized")]
          /\ UNCHANGED ids
     ELSE /\ CanMint
          /\ req' = [req EXCEPT ![p] =
                       [Minted("refresh", d.userId, d.role, d.tokenId)
                          EXCEPT !.pc = "rotSet",
                                 !.snap = getUserSessions(d.userId)]]
          /\ nextId' = nextId + 2 /\ minted' = minted + 1
  /\ UNCHANGED <<clock, accounts, sessions, sessTTL, rt, bl, gateVars,
                 issued, blBy, streak>>

\* blacklistToken(oldTokenId, REFRESH_TOKEN_EXPIRY): SET, then EXPIRE.
RotateBlacklistSet(p) ==
  LET r == req[p] IN
  /\ r.pc = "rotSet"
  /\ bl' = RedisSet(bl, RotateTarget(r.old, r.sid))
  /\ blBy' = blBy \cup {<<RotateTarget(r.old, r.sid), "rotate">>}
  /\ req' = [req EXCEPT ![p].pc = "rotExp"]
  /\ UNCHANGED <<clock, accounts, ids, sessions, sessTTL, rt, gateVars,
                 issued, streak>>

RotateBlacklistExpire(p) ==
  LET r == req[p] IN
  /\ r.pc = "rotExp"
  /\ bl' = RedisExpire(bl, RotateTarget(r.old, r.sid), RotateBlacklistTTL)
  /\ req' = [req EXCEPT ![p].pc = "setRt"]
  /\ UNCHANGED <<clock, accounts, ids, sessions, sessTTL, rt, gateVars,
                 issued, blBy, streak>>

\* ---------------------------------------------------- logout, revokeSession
\* TokenService.revokeUserSession, line 163: the lifetime of the marker.
RevokeBlacklistTTL == ACCESS_TOKEN_EXPIRY

\* The middleware threw: the handler never runs.
Denied(op, token) ==
  Finish([Idle EXCEPT !.op = op,
                      !.http = AuthorizeResponse(token).statusCode,
                      !.msg = AuthorizeResponse(token).message],
         verifyAccessToken(token).status)

\* POST /logout: verifyAccessToken, then revokeUserSession(userId, tokenId).
Logout(p, token) ==
  LET a == verifyAccessToken(token) IN
  /\ Free(p)
  /\ token \in Tokens
  /\ req' = [req EXCEPT ![p] =
               IF a.status # "ok" THEN Denied("logout", token)
               ELSE [Idle EXCEPT !.op = "logout", !.pc = "hGet",
                                 !.user = a.userId, !.role = a.role,
                                 !.old = a.tokenId, !.sid = a.tokenId]]
  /\ UNCHANGED <<clock, accounts, ids, sessions, sessTTL, rt, bl,
                 gateVars, issued, blBy, streak>>

\* DELETE /sessions/:sessionId: verifyAccessToken, then revokeSession.
RevokeSession(p, token, sessionId) ==
  LET a == verifyAccessToken(token) IN
  /\ Free(p)
  /\ token \in Tokens
  /\ req' = [req EXCEPT ![p] =
               IF a.status # "ok" THEN Denied("revoke", token)
               ELSE [Idle EXCEPT !.op = "revoke", !.pc = "list",
                                 !.user = a.userId, !.role = a.role,
                                 !.old = a.tokenId, !.sid = sessionId]]
  /\ UNCHANGED <<clock, accounts, ids, sessions, sessTTL, rt, bl,
                 gateVars, issued, blBy, streak>>

\* AuthController.revokeSession, lines 395-402: getUserSessions and the check.
RevokeList(p) ==
  LET r == req[p] IN
  /\ r.pc = "list"
  /\ req' = [req EXCEPT ![p] =
               IF r.sid \in getUserSessions(r.user)
               THEN [r EXCEPT !.pc = "hGet"]
               ELSE Finish(r, "NotFound")]
  /\ UNCHANGED <<clock, accounts, ids, sessions, sessTTL, rt, bl,
                 gateVars, issued, blBy, streak>>

\* revokeUserSession, lines 155-158: HGET and the NotFoundError.
RevokeHGet(p) ==
  LET r == req[p] IN
  /\ r.pc = "hGet"
  /\ req' = [req EXCEPT ![p] =
               IF r.sid \in DOMAIN sessions[r.user]
               THEN [r EXCEPT !.pc = "revSet"]
               ELSE Finish(r, "NotFound")]
  /\ UNCHANGED <<clock, accounts, ids, sessions, sessTTL, rt, bl,
                 gateVars, issued, blBy, streak>>

\* Promise.all([blacklistToken, hDel, del]) queues SET blacklisted_token,
\* HDEL, DEL refresh_token and then EXPIRE blacklisted_token.
RevokeBlacklistSet(p) ==
  LET r == req[p] IN
  /\ r.pc = "revSet"
  /\ bl' = RedisSet(bl, r.sid)
  /\ blBy' = blBy \cup {<<r.sid, "revoke">>}
  /\ req' = [req EXCEPT ![p].pc = "hDel"]
  /\ UNCHANGED <<clock, accounts, ids, sessions, sessTTL, rt, gateVars,
                 issued, streak>>

\* A revoke that forgets the HDEL.
hDelKeeps(h, field) == h

\* HDEL user_sessions:{u} tokenId; Redis removes a hash left empty.
hDel(h, field) == [x \in (DOMAIN h) \ {field} |-> h[x]]

Disturbed(h) == IF DOMAIN h = {} THEN 0 ELSE Broken

RevokeHDel(p) ==
  LET r == req[p]
      h == hDel(sessions[r.user], r.sid) IN
  /\ r.pc = "hDel"
  /\ sessions' = [sessions EXCEPT ![r.user] = h]
  /\ sessTTL' = [sessTTL EXCEPT ![r.user] = IF DOMAIN h = {} THEN NoTTL ELSE @]
  /\ streak' = [streak EXCEPT ![r.user] = Disturbed(h)]
  /\ req' = [req EXCEPT ![p].pc = "delRt"]
  /\ UNCHANGED <<clock, accounts, ids, rt, bl, gateVars, issued, blBy>>

RevokeDelRt(p) ==
  LET r == req[p] IN
  /\ r.pc = "delRt"
  /\ rt' = RedisDel(rt, <<r.user, r.sid>>)
  /\ req' = [req EXCEPT ![p].pc = "revExp"]
  /\ UNCHANGED <<clock, accounts, ids, sessions, sessTTL, bl, gateVars,
                 issued, blBy, streak>>

RevokeBlacklistExpire(p) ==
  LET r == req[p] IN
  /\ r.pc = "revExp"
  /\ bl' = RedisExpire(bl, r.sid, RevokeBlacklistTTL)
  /\ req' = [req EXCEPT ![p] = Finish(r, "ok")]
  /\ UNCHANGED <<clock, accounts, ids, sessions, sessTTL, rt, gateVars,
                 issued, blBy, streak>>

\* --------------------------------------------------------------- logoutAll
\* TokenService.revokeAllUserSessions, lines 175-176: the ids it blacklists
\* and the lifetime of each marker.
\* A revokeAll that deletes the collection and blacklists nothing.
revokeAllTargetsNone(snapshot) == {}
revokeAllTargets(snapshot) == snapshot
RevokeAllBlacklistTTL == ACCESS_TOKEN_EXPIRY

First(S) == CHOOSE x \in S : \A y \in S : x <= y

\* POST /logout-all: verifyAccessToken, then revokeAllUserSessions(userId).
LogoutAll(p, token) ==
  LET a == verifyAccessToken(token) IN
  /\ Free(p)
  /\ token \in Tokens
  /\ req' = [req EXCEPT ![p] =
               IF a.status # "ok" THEN Denied("revokeAll", token)
               ELSE [Idle EXCEPT !.op = "revokeAll", !.pc = "hGetAll",
                                 !.user = a.userId, !.role = a.role,
                                 !.old = a.tokenId]]
  /\ UNCHANGED <<clock, accounts, ids, sessions, sessTTL, rt, bl,
                 gateVars, issued, blBy, streak>>

\* Lines 175-180: the map calls blacklistToken for every id, and each call
\* hands its SET to the connection before client.del(key) is called.
\* A revokeAll that hands DEL to the connection first.
AfterSnapshotDelFirst(targets) == "delSess"
AfterSnapshot(targets) == IF targets = {} THEN "delSess" ELSE "allSet"

\* HGETALL user_sessions:{u}: the snapshot.  The map over its keys calls
\* blacklistToken for each, which queues one SET per id before DEL is queued.
RevokeAllHGetAll(p) ==
  LET r == req[p]
      snapshot == DOMAIN sessions[r.user] IN
  /\ r.pc = "hGetAll"
  /\ req' = [req EXCEPT ![p] =
               [r EXCEPT !.snap = snapshot,
                         !.todo = revokeAllTargets(snapshot),
                         !.pc = AfterSnapshot(revokeAllTargets(snapshot))]]
  /\ UNCHANGED <<clock, accounts, ids, sessions, sessTTL, rt, bl,
                 gateVars, issued, blBy, streak>>

RevokeAllBlacklistSet(p) ==
  LET r == req[p]
      t == First(r.todo) IN
  /\ r.pc = "allSet"
  /\ bl' = RedisSet(bl, t)
  /\ blBy' = blBy \cup {<<t, "revokeAll">>}
  /\ req' = [req EXCEPT ![p] =
               [r EXCEPT !.todo = r.todo \ {t},
                         !.pc = IF r.todo = {t} THEN "delSess" ELSE "allSet"]]
  /\ UNCHANGED <<clock, accounts, ids, sessions, sessTTL, rt, gateVars,
                 issued, streak>>

\* DEL user_sessions:{u}.  gone is history: the entries the DEL removed.
RevokeAllDel(p) ==
  LET r == req[p] IN
  /\ r.pc = "delSess"
  /\ sessions' = [sessions EXCEPT ![r.user] = EmptyMap]
  /\ sessTTL' = [sessTTL EXCEPT ![r.user] = NoTTL]
  /\ streak' = [streak EXCEPT ![r.user] = 0]
  /\ req' = [req EXCEPT ![p] =
               IF revokeAllTargets(r.snap) = {}
               THEN Finish([r EXCEPT !.gone = getUserSessions(r.user)], "ok")
               ELSE [r EXCEPT !.todo = revokeAllTargets(r.snap),
                              !.gone = getUserSessions(r.user),
                              !.pc = "allExp"]]
  /\ UNCHANGED <<clock, accounts, ids, rt, bl, gateVars, issued, blBy>>

\* The EXPIRE of each blacklistToken, as its await resumes.
RevokeAllBlacklistExpire(p) ==
  LET r == req[p]
      t == First(r.todo) IN
  /\ r.pc = "allExp"
  /\ bl' = RedisExpire(bl, t, RevokeAllBlacklistTTL)
  /\ req' = [req EXCEPT ![p] =
               IF r.todo = {t} THEN Finish([r EXCEPT !.todo = {}], "ok")
               ELSE [r EXCEPT !.todo = r.todo \ {t}]]
  /\ UNCHANGED <<clock, accounts, ids, sessions, sessTTL, rt, gateVars,
                 issued, blBy, streak>>

\* ------------------------------------- requests that meet a store failure
\* The handler a protected route runs once verifyAccessToken has called next.
Handler(op, a) ==
  [Idle EXCEPT !.op = op,
               !.pc = IF op = "logout" THEN "hGet"
                      ELSE IF op = "revoke" THEN "list" ELSE "hGetAll",
               !.user = a.userId, !.role = a.role, !.old = a.tokenId,
               !.sid = IF op = "revokeAll" THEN NoId ELSE a.tokenId,
               !.lookup = "failed"]

\* A request on a protected route whose GET blacklisted_token rejects.
AuthorizeOutage(p, op, token) ==
  LET a == verifyAccessTokenOutage(token) IN
  /\ Free(p)
  /\ token \in Tokens
  /\ LookupReached(token, JWT_ACCESS_SECRET, "access")
  /\ req' = [req EXCEPT ![p] =
               IF a.status # "ok"
               THEN Finish([Idle EXCEPT
                              !.op = op, !.lookup = "failed",
                              !.http = errorHandler(StoreError).statusCode,
                              !.msg = errorHandler(StoreError).message],
                           a.status)
               ELSE Handler(op, a)]
  /\ UNCHANGED <<clock, accounts, ids, sessions, sessTTL, rt, bl,
                 gateVars, issued, blBy, streak>>

\* POST /refresh whose GET blacklisted_token rejects.
RefreshOutage(p, token) ==
  LET d == validateRefreshTokenOutage(token) IN
  /\ Free(p)
  /\ token \in Tokens
  /\ LookupReached(token, JWT_REFRESH_SECRET, "refresh")
  /\ IF d.status # "ok"
     THEN /\ req' = [req EXCEPT ![p] =
                       Finish([Idle EXCEPT
                                 !.op = "refresh", !.lookup = "failed",
                                 !.http = errorHandler(UnauthorizedError(
                                            "Invalid refresh token")).statusCode,
                                 !.msg = "Invalid refresh token"],
                              d.status)]
          /\ UNCHANGED ids
     ELSE /\ CanMint
          /\ req' = [req EXCEPT ![p] =
                       [Minted("refresh", d.userId, d.role, d.tokenId)
                          EXCEPT !.pc = "rotSet", !.lookup = "failed"]]
          /\ nextId' = nextId + 2 /\ minted' = minted + 1
  /\ UNCHANGED <<clock, accounts, sessions, sessTTL, rt, bl, gateVars,
                 issued, blBy, streak>>

\* A store command of a refresh rejects (the store has become unreachable:
\* the command and those after it are not applied).  Nothing in refresh or
\* in the TokenService catches it, so the handler throws and errorHandler
\* answers; what the earlier commands wrote stays.
RotateStoreRejects(p) ==
  LET r == req[p] IN
  /\ r.op = "refresh"
  /\ r.pc \in {"rotSet", "rotExp", "setRt", "hSet", "expRt", "expSess"}
  /\ req' = [req EXCEPT ![p] =
               Finish([Idle EXCEPT
                         !.op = "refresh", !.user = r.user, !.role = r.role,
                         !.old = r.old,
                         !.http = errorHandler(StoreError).statusCode,
                         !.msg = errorHandler(StoreError).message],
                      "StoreError")]
  /\ UNCHANGED <<clock, accounts, ids, sessions, sessTTL, rt, bl,
                 gateVars, issued, blBy, streak>>

\* The response leaves; the slot is free for the next request.
Respond(p) ==
  /\ req[p].pc = "done"
  /\ req' = [req EXCEPT ![p] = Idle]
  /\ UNCHANGED <<clock, accounts, ids, sessions, sessTTL, rt, bl,
                 gateVars, issued, blBy, streak>>

\* ------------------------------------------------- the rate limiter's steps
\* An increment made of a read and a write, which loses the increments of
\* the calls that overlap it.
RedisIncrLost(f, k) ==
  [x \in (DOMAIN f) \cup {k} |->
     IF x # k THEN f[x]
     ELSE IF k \in DOMAIN f THEN [f[k] EXCEPT !.count = 1]
     ELSE [count |-> 1, ttl |-> NoTTL]]

\* INCR key: a missing key is created at 1 with no expiry.
RedisIncr(f, k) ==
  [x \in (DOMAIN f) \cup {k} |->
     IF x # k THEN f[x]
     ELSE IF k \in DOMAIN f THEN [f[k] EXCEPT !.count = @ + 1]
     ELSE [count |-> 1, ttl |-> NoTTL]]

\* An EXPIRE that leaves the expiry of a counter that already has one.
RateExpireOnce(f, k, seconds) ==
  IF k \notin DOMAIN f THEN f
  ELSE IF seconds <= 0 THEN [x \in (DOMAIN f) \ {k} |-> f[x]]
  ELSE IF f[k].ttl # NoTTL THEN f
  ELSE [f EXCEPT ![k].ttl = now + seconds]

\* EXPIRE on a counter.
RateExpire(f, k, seconds) ==
  IF k \notin DOMAIN f THEN f
  ELSE IF seconds <= 0 THEN [x \in (DOMAIN f) \ {k} |-> f[x]]
  ELSE [f EXCEPT ![k].ttl = now + seconds]

\* The window handed to EXPIRE in milliseconds.
WindowSecondsAsMs(config) == config.windowMs
\* Math.floor(config.windowMs / 1000), lines 34 and 38.
WindowSeconds(config) == config.windowMs \div 1000

\* Promise.all([incr, expire]): INCR is queued first and answers `requests`.
GateIncr(p, config, ip) ==
  LET k == RateKey(config, ip) IN
  /\ gate[p].pc = "idle"
  /\ Free(p)
  /\ calls[k] < config.max + MaxOver
  /\ past[k].burst < config.max + MaxOver
  /\ rate' = RedisIncr(rate, k)
  /\ calls' = [calls EXCEPT ![k] = @ + 1]
  /\ past' = [past EXCEPT ![k].burst = @ + 1]
  /\ gate' = [gate EXCEPT ![p] =
                [GateIdle EXCEPT !.pc = "expire", !.config = config,
                                 !.ip = ip, !.requests = rate'[k].count,
                                 !.call = calls[k] + 1]]
  /\ UNCHANGED <<clock, accounts, ids, sessions, sessTTL, rt, bl, issued,
                 req, blBy, streak>>

\* Lines 37-51: the headers, then RateLimitError over the limit, next()
\* otherwise.  The throw is inside the try, so the catch block receives it.
\* A catch that logs the error and lets the request through.
CatchBlockNext(thrown) == "Allowed"
CatchBlock(thrown) == "InternalServerError"

GateOutcome(requests, config) ==
  IF requests > config.max THEN CatchBlock("RateLimitError") ELSE "Allowed"

Maximum(a, b) == IF a >= b THEN a ELSE b

\* EXPIRE key seconds, then the decision.
GateExpire(p) ==
  LET g == gate[p]
      k == RateKey(g.config, g.ip) IN
  /\ g.pc = "expire"
  /\ rate' = RateExpire(rate, k, WindowSeconds(g.config))
  /\ calls' = [calls EXCEPT ![k] = IF k \in DOMAIN rate' THEN @ ELSE 0]
  /\ past' = [past EXCEPT ![k].limited = @ \/ g.requests > g.config.max]
  /\ gate' = [gate EXCEPT ![p] =
                [g EXCEPT !.pc = "done",
                          !.remaining = Maximum(0, g.config.max - g.requests),
                          !.retryAfter = WindowSeconds(g.config),
                          !.res = GateOutcome(g.requests, g.config)]]
  /\ UNCHANGED <<clock, accounts, ids, sessions, sessTTL, rt, bl, issued,
                 req, blBy, streak>>

\* INCR rejects (the store is unreachable: neither command is applied):
\* Promise.all rejects and the catch block answers.
GateIncrRejects(p, config, ip) ==
  /\ gate[p].pc = "idle"
  /\ Free(p)
  /\ gate' = [gate EXCEPT ![p] =
                [GateIdle EXCEPT !.pc = "done", !.config = config, !.ip = ip,
                                 !.store = "failed",
                                 !.res = CatchBlock("StoreError")]]
  /\ UNCHANGED <<clock, accounts, ids, sessions, sessTTL, rt, bl, rate, calls,
                 past, issued, req, blBy, streak>>

\* INCR was applied and EXPIRE rejects: the counter keeps the expiry it had.
GateExpireRejects(p) ==
  LET g == gate[p] IN
  /\ g.pc = "expire"
  /\ gate' = [gate EXCEPT ![p] =
                [g EXCEPT !.pc = "done", !.store = "failed",
                          !.res = CatchBlock("StoreError")]]
  /\ UNCHANGED <<clock, accounts, ids, sessions, sessTTL, rt, bl, rate, calls,
                 past, issued, req, blBy, streak>>

GateRespond(p) ==
  /\ gate[p].pc = "done"
  /\ gate' = [gate EXCEPT ![p] = GateIdle]
  /\ UNCHANGED <<clock, accounts, ids, sessions, sessTTL, rt, bl, rate, calls,
                 past, issued, req, blBy, streak>>

\* The :sessionId of a request: an id drawn so far, or one that never was.
KnownIds == 0..(nextId - 1)

\* --------------------------------------------------------- specifications
Step(p) ==
  \/ \E u \in Users : Register(p, u)
  \/ \E u \in Users : Login(p, u)
  \/ StoreSetRt(p)
  \/ StoreHSet(p)
  \/ StoreExpireRt(p)
  \/ StoreExpireSessions(p)
  \/ \E token \in Tokens : Refresh(p, token)
  \/ RotateBlacklistSet(p)
  \/ RotateBlacklistExpire(p)
  \/ \E token \in Tokens : Logout(p, token)
  \/ \E token \in Tokens, sessionId \in KnownIds :
       RevokeSession(p, token, sessionId)
  \/ RevokeList(p)
  \/ RevokeHGet(p)
  \/ RevokeBlacklistSet(p)
  \/ RevokeHDel(p)
  \/ RevokeDelRt(p)
  \/ RevokeBlacklistExpire(p)
  \/ \E token \in Tokens : LogoutAll(p, token)
  \/ RevokeAllHGetAll(p)
  \/ RevokeAllBlacklistSet(p)
  \/ RevokeAllDel(p)
  \/ RevokeAllBlacklistExpire(p)
  \/ \E token \in Tokens, op \in {"logout", "revoke", "revokeAll"} :
       AuthorizeOutage(p, op, token)
  \/ \E token \in Tokens : RefreshOutage(p, token)
  \/ Respond(p)

\* Requests that do not overlap: one request at a time.
Next == (\E p \in SeqProcs : Step(p)) \/ Tick

Spec == Init /\ [][Next]_vars

\* Rotations that overlap: the steps of the refresh requests of the two slots
\* interleave.  The behaviours start after one completed registration of u1
\* at time 0.
FirstAccess ==
  [userId |-> "u1", role |-> RoleOf("u1"), tokenId |-> 1, type |-> "access",
   iat |-> 0, exp |-> ACCESS_TOKEN_EXPIRY, sig |-> JWT_ACCESS_SECRET]
FirstRefresh ==
  [userId |-> "u1", role |-> RoleOf("u1"), tokenId |-> 2, type |-> "refresh",
   iat |-> 0, exp |-> REFRESH_TOKEN_EXPIRY, sig |-> JWT_REFRESH_SECRET]
FirstPair ==
  [by |-> "register", user |-> "u1", role |-> RoleOf("u1"), sid |-> 1,
   access |-> FirstAccess, refresh |-> FirstRefresh]

AfterRegister ==
  /\ now = 0
  /\ ticks = 0
  /\ registered = {"u1"}
  /\ userRole = [u \in Users |-> IF u = "u1" THEN RoleOf(u) ELSE "none"]
  /\ nextId = 3
  /\ sessions = [u \in Users |->
                   IF u = "u1"
                   THEN hSet(EmptyMap, 1,
                             [lastUsed |-> 0,
                              expiryTime |-> REFRESH_TOKEN_EXPIRY])
                   ELSE EmptyMap]
  /\ sessTTL = [u \in Users |->
                  IF u = "u1" THEN REFRESH_TOKEN_EXPIRY ELSE NoTTL]
  /\ rt = [k \in {<<"u1", 1>>} |-> REFRESH_TOKEN_EXPIRY]
  /\ bl = EmptyMap
  /\ rate = EmptyMap
  /\ gate = [p \in Procs |-> GateIdle]
  /\ calls = [k \in RateKeys |-> 0]
  /\ past = [k \in RateKeys |-> [burst |-> 0, limited |-> FALSE]]
  /\ issued = {FirstPair}
  /\ req = [p \in Procs |-> Idle]
  /\ blBy = {}
  /\ streak = [u \in Users |-> IF u = "u1" THEN 1 ELSE 0]

InitRotate == AfterRegister /\ minted = 0

RotateStep(p) ==
  \/ \E token \in Tokens : Refresh(p, token)
  \/ RotateBlacklistSet(p)
  \/ RotateBlacklistExpire(p)
  \/ StoreSetRt(p)
  \/ StoreHSet(p)
  \/ StoreExpireRt(p)
  \/ StoreExpireSessions(p)
  \/ Respond(p)

NextRotate == (\E p \in Procs : RotateStep(p)) \/ Tick

SpecRotate == InitRotate /\ [][NextRotate]_vars

\* Logins that overlap: the steps of the login requests of the slots
\* interleave.  The behaviours start after u1 has registered and logged out
\* at time 0, with no session, and may mint MaxLogins pairs.
AfterLogout ==
  /\ now = 0
  /\ ticks = 0
  /\ registered = {"u1"}
  /\ userRole = [u \in Users |-> IF u = "u1" THEN RoleOf(u) ELSE "none"]
  /\ nextId = 3
  /\ sessions = [u \in Users |-> EmptyMap]
  /\ sessTTL = [u \in Users |-> NoTTL]
  /\ rt = EmptyMap
  /\ bl = [t \in {1} |-> ACCESS_TOKEN_EXPIRY]
  /\ rate = EmptyMap
  /\ gate = [p \in Procs |-> GateIdle]
  /\ calls = [k \in RateKeys |-> 0]
  /\ past = [k \in RateKeys |-> [burst |-> 0, limited |-> FALSE]]
  /\ issued = {FirstPair}
  /\ req = [p \in Procs |-> Idle]
  /\ blBy = {<<1, "revoke">>}
  /\ streak = [u \in Users |-> 0]

InitLogin == AfterLogout /\ minted = MaxIssues - MaxLogins

LoginStep(p) ==
  \/ \E u \in Users : Login(p, u)
  \/ StoreSetRt(p)
  \/ StoreHSet(p)
  \/ StoreExpireRt(p)
  \/ StoreExpireSessions(p)
  \/ Respond(p)

NextLogin == (\E p \in Procs : LoginStep(p)) \/ Tick

SpecLogin == InitLogin /\ [][NextLogin]_vars

\* A revokeAll that overlaps logins and rotations of the same user: the steps
\* of the requests of the slots interleave.  The behaviours start after one
\* completed registration of u1 at time 0.
RevokeAllStep(p) ==
  \/ \E token \in Tokens : LogoutAll(p, token)
  \/ RevokeAllHGetAll(p)
  \/ RevokeAllBlacklistSet(p)
  \/ RevokeAllDel(p)
  \/ RevokeAllBlacklistExpire(p)
  \/ \E u \in Users : Login(p, u)
  \/ \E token \in Tokens : Refresh(p, token)
  \/ RotateBlacklistSet(p)
  \/ RotateBlacklistExpire(p)
  \/ StoreSetRt(p)
  \/ StoreHSet(p)
  \/ StoreExpireRt(p)
  \/ StoreExpireSessions(p)
  \/ Respond(p)

\* Two requests overlap, within the lifetime of the access token.
NextRevokeAll == \E p \in PairProcs : RevokeAllStep(p)

SpecRevokeAll == InitRotate /\ [][NextRevokeAll]_vars

\* Rotations, one at a time, during which the store may fail.
RotateOutageStep(p) == RotateStep(p) \/ RotateStoreRejects(p)

NextRotateOutage == (\E p \in SeqProcs : RotateOutageStep(p)) \/ Tick

SpecRotateOutage == InitRotate /\ [][NextRotateOutage]_vars

\* Sessions that age: logins and rotations, one at a time, of a user who
\* registered at time 0, from the time ACCESS_TOKEN_EXPIRY on.
AfterRegisterAndWait ==
  /\ now = ACCESS_TOKEN_EXPIRY
  /\ ticks = 0
  /\ registered = {"u1"}
  /\ userRole = [u \in Users |-> IF u = "u1" THEN RoleOf(u) ELSE "none"]
  /\ nextId = 3
  /\ sessions = [u \in Users |->
                   IF u = "u1"
                   THEN hSet(EmptyMap, 1,
                             [lastUsed |-> 0,
                              expiryTime |-> REFRESH_TOKEN_EXPIRY])
                   ELSE EmptyMap]
  /\ sessTTL = [u \in Users |->
                  IF u = "u1" THEN REFRESH_TOKEN_EXPIRY ELSE NoTTL]
  /\ rt = [k \in {<<"u1", 1>>} |-> REFRESH_TOKEN_EXPIRY]
  /\ bl = EmptyMap
  /\ rate = EmptyMap
  /\ gate = [p \in Procs |-> GateIdle]
  /\ calls = [k \in RateKeys |-> 0]
  /\ past = [k \in RateKeys |-> [burst |-> 0, limited |-> FALSE]]
  /\ issued = {FirstPair}
  /\ req = [p \in Procs |-> Idle]
  /\ blBy = {}
  /\ streak = [u \in Users |-> IF u = "u1" THEN 1 ELSE 0]

InitExpiry == AfterRegisterAndWait /\ minted = 0

ExpiryStep(p) ==
  \/ \E u \in Users : Login(p, u)
  \/ RotateStep(p)

NextExpiry == (\E p \in SeqProcs : ExpiryStep(p)) \/ Tick \/ ExpiryTick

SpecExpiry == InitExpiry /\ [][NextExpiry]_vars

\* The rate limiter alone, one request at a time.
GateStep(p) ==
  \/ \E config \in Limiters, ip \in Ips : GateIncr(p, config, ip)
  \/ GateExpire(p)
  \/ \E config \in Limiters, ip \in Ips : GateIncrRejects(p, config, ip)
  \/ GateExpireRejects(p)
  \/ GateRespond(p)

NextGate == (\E p \in SeqProcs : GateStep(p)) \/ Tick \/ GateTick

SpecGate == Init /\ [][NextGate]_vars

\* Gate calls that overlap within one window: the INCR and EXPIRE of the
\* calls of the slots interleave.
RaceLimiters == {config \in Limiters : config.keyPrefix = "auth"}

GateRaceStep(p) ==
  \/ \E config \in RaceLimiters, ip \in Ips : GateIncr(p, config, ip)
  \/ GateExpire(p)
  \/ \E config \in RaceLimiters, ip \in Ips : GateIncrRejects(p, config, ip)
  \/ GateExpireRejects(p)
  \/ GateRespond(p)

NextGateRace == \E p \in Procs : GateRaceStep(p)

SpecGateRace == Init /\ [][NextGateRace]_vars

\* Limiters whose window is not a whole number of seconds.
ShortLimiters ==
  {[keyPrefix |-> "auth", windowMs |-> 500, max |-> GateMax],
   [keyPrefix |-> "reports", windowMs |-> 1500, max |-> GateMax]}

WindowStep(p) ==
  \/ \E config \in ShortLimiters, ip \in Ips : GateIncr(p, config, ip)
  \/ GateExpire(p)
  \/ \E config \in ShortLimiters, ip \in Ips : GateIncrRejects(p, config, ip)
  \/ GateExpireRejects(p)
  \/ GateRespond(p)

NextWindow == (\E p \in SeqProcs : WindowStep(p)) \/ Tick \/ GateTick

SpecWindow == Init /\ [][NextWindow]_vars

\* ================================================================= claims
Done(p, op) == req[p].pc = "done" /\ req[p].op = op
Revoked(tokenId) ==
  <<tokenId, "revoke">> \in blBy \/ <<tokenId, "revokeAll">> \in blBy
Blacklisted(tokenId) == \E op \in {"revoke", "revokeAll", "rotate"} :
                          <<tokenId, op>> \in blBy

\* C1: when a rotate has completed, authorize on every token that carries
\* oldTokenId fails with Revoked, and the access token the rotate issued
\* authorizes with its userId, role and new tokenId.
C1_RotateRevokesOld ==
  \A p \in Procs :
    (Done(p, "refresh") /\ req[p].res = "ok") =>
      /\ \A t \in Tokens :
           t.tokenId = req[p].old => verifyAccessToken(t).status = "Revoked"
      /\ verifyAccessToken(req[p].acc) =
           [status |-> "ok", userId |-> req[p].user, role |-> req[p].role,
            tokenId |-> req[p].sid]

\* C2: when a revoke has succeeded, the session list of the user excludes
\* tokenId and tokenId is blacklisted; a revoke of a tokenId that is absent
\* from the user's collection returns NotFound and leaves the session
\* registry, the token metadata and the revocation ledger as they were.
C2_RevokedState ==
  \A p \in Procs :
    ((Done(p, "revoke") \/ Done(p, "logout")) /\ req[p].res = "ok") =>
      /\ req[p].sid \notin getUserSessions(req[p].user)
      /\ isTokenBlacklisted(req[p].sid)

C2_AbsentStep ==
  \A p \in Procs :
    (/\ req[p].op \in {"revoke", "logout"}
     /\ req[p].pc \in {"list", "hGet"}
     /\ req[p].sid \notin DOMAIN sessions[req[p].user]) =>
      /\ req'[p].pc = "done"
      /\ req'[p].res = "NotFound"
      /\ UNCHANGED <<sessions, sessTTL, rt, bl>>

C2_Revoke == []C2_RevokedState /\ [][C2_AbsentStep]_vars

\* The second revoke of a tokenId has answered NotFound.
C2_Witness ==
  \E p \in Procs :
    /\ Done(p, "revoke")
    /\ req[p].res = "NotFound"
    /\ <<req[p].sid, "revoke">> \in blBy

\* C3: when a revoke (logout, session deletion) or a revokeAll has
\* completed, the refresh token issued together with each revoked session
\* fails refresh validation.
C3_RevokeKillsRefresh ==
  \A p \in Procs :
    /\ ((Done(p, "revoke") \/ Done(p, "logout")) /\ req[p].res = "ok") =>
         \A c \in issued :
           c.sid = req[p].sid => validateRefreshToken(c.refresh).status # "ok"
    /\ (Done(p, "revokeAll") /\ req[p].res = "ok") =>
         \A c \in issued :
           c.sid \in req[p].snap =>
             validateRefreshToken(c.refresh).status # "ok"

\* C4: when a revokeAll has completed, the session list of the user is empty
\* and every tokenId listed just before the call is blacklisted.
C4_RevokeAll ==
  \A p \in Procs :
    (Done(p, "revokeAll") /\ req[p].res = "ok") =>
      /\ getUserSessions(req[p].user) = {}
      /\ \A t \in req[p].snap : isTokenBlacklisted(t)

C4_Witness ==
  \E p \in Procs :
    Done(p, "revokeAll") /\ req[p].res = "ok" /\ req[p].snap # {}

\* C5: the access token of every login or register whose session has not
\* been revoked authorizes, until it expires, as exactly the issued userId,
\* role and tokenId, the tokenId being the key of the registered session.
C5_IssuedAuthorizes ==
  \A c \in issued :
    (c.by \in {"login", "register"} /\ ~Revoked(c.sid)
       /\ now < c.access.exp) =>
      verifyAccessToken(c.access) =
        [status |-> "ok", userId |-> c.user, role |-> c.role,
         tokenId |-> c.sid]

\* A login's token authorizes after another pair was rotated for the user.
C5_Witness ==
  \E c \in issued :
    /\ c.by \in {"login", "register"}
    /\ ~Revoked(c.sid)
    /\ verifyAccessToken(c.access).status = "ok"
    /\ \E d \in issued : d.by = "refresh" /\ d.user = c.user

\* C6: of the registrations made in a row for a user that had no session,
\* the first MAX_SESSIONS_PER_USER succeed and the next one fails with
\* CapacityExceeded.
C6_CapAfterN ==
  \A p \in Procs :
    ((Done(p, "login") \/ Done(p, "register"))
       /\ streak[req[p].user] >= 1
       /\ streak[req[p].user] <= MAX_SESSIONS_PER_USER + 1) =>
      req[p].res = IF streak[req[p].user] <= MAX_SESSIONS_PER_USER
                   THEN "ok" ELSE "CapacityExceeded"

C6_Witness ==
  \E p \in Procs :
    /\ Done(p, "login")
    /\ streak[req[p].user] = MAX_SESSIONS_PER_USER + 1
    /\ req[p].res = "CapacityExceeded"

\* C7: no user ever has more than MAX_SESSIONS_PER_USER session entries.
C7_SessionCap ==
  \A u \in Users : getUserSessionCount(u) <= MAX_SESSIONS_PER_USER

C8_GateSequence ==
  \A p \in Procs :
    (gate[p].pc = "done" /\ gate[p].store = "ok") =>
      /\ gate[p].call <= gate[p].config.max =>
           /\ gate[p].res = "Allowed"
           /\ gate[p].remaining = gate[p].config.max - gate[p].call
      /\ gate[p].call = gate[p].config.max + 1 =>
           /\ gate[p].res = "RateLimitExceeded"
           /\ gate[p].retryAfter * 1000 = gate[p].config.windowMs

\* C9: two rotations of one refresh token that both passed refresh
\* validation run to completion whatever the order of their steps, both
\* succeed, and when both have completed oldTokenId is blacklisted and at
\* least one of the two new access tokens authorizes.
Rotating(p) == req[p].op = "refresh" /\ req[p].pc \notin {"idle", "done"}

C9_ConcurrentRotate ==
  /\ \A p \in Procs : Rotating(p) => ENABLED RotateStep(p)
  /\ \A p \in Procs :
       (Done(p, "refresh") /\ req[p].old # NoId) => req[p].res = "ok"
  /\ \A p, q \in Procs :
       (p # q /\ Done(p, "refresh") /\ Done(q, "refresh")
          /\ req[p].old # NoId /\ req[p].old = req[q].old) =>
         /\ isTokenBlacklisted(req[p].old)
         /\ \E r \in {p, q} : verifyAccessToken(req[r].acc).status = "ok"

C9_Witness ==
  \E p, q \in Procs :
    /\ p # q
    /\ Done(p, "refresh") /\ Done(q, "refresh")
    /\ req[p].res = "ok" /\ req[q].res = "ok"
    /\ req[p].old = req[q].old
\* C11: a request whose revocation-ledger lookup failed with a store error
\* is rejected: it has answered with an error, its protected handler has
\* not run and no token was minted for it.
C11_FailClosed ==
  \A p \in Procs :
    req[p].lookup = "failed" =>
      /\ req[p].pc = "done"
      /\ req[p].res \in {"StoreError", "Unauthorized"}
      /\ req[p].http \in {401, 500}
      /\ req[p].acc = NoToken /\ req[p].ref = NoToken
      /\ req[p].sid = NoId

\* A request has met the failure with a token that passes when the store
\* answers.
C11_Witness ==
  \E p \in Procs :
    /\ req[p].lookup = "failed"
    /\ req[p].op \in {"logout", "refresh"}
    /\ \E c \in issued :
         \/ req[p].op = "logout" /\ verifyAccessToken(c.access).status = "ok"
         \/ req[p].op = "refresh"
              /\ validateRefreshToken(c.refresh).status = "ok"

\* C17: the response to a rejected authorize is the same whichever way the
\* token fails: expired, revoked, or forged.
C17_GenericUnauthorized ==
  \A t1, t2 \in Tokens :
    (verifyAccessToken(t1).status # "ok"
       /\ verifyAccessToken(t2).status # "ok") =>
      AuthorizeResponse(t1) = AuthorizeResponse(t2)

\* C12: a gated request whose INCR or EXPIRE failed in the store is answered
\* with the infrastructure error (InternalServerError) and is not passed on
\* to the next handler.
C12_GateFailClosed ==
  \A p \in Procs :
    gate[p].store = "failed" =>
      /\ gate[p].pc = "done"
      /\ gate[p].res = "InternalServerError"

\* The EXPIRE of a call that was within the limit has failed.
C12_Witness ==
  \E p \in Procs :
    /\ gate[p].store = "failed"
    /\ gate[p].requests >= 1
    /\ gate[p].requests <= gate[p].config.max

\* C13: when a rotate has completed, the registry holds no session of the
\* superseded token pair and the user has as many sessions as before the
\* rotate.
C13_RotateReplaces ==
  \A p \in Procs :
    (Done(p, "refresh") /\ req[p].res = "ok") =>
      /\ \A c \in issued :
           c.refresh.tokenId = req[p].old =>
             c.sid \notin getUserSessions(req[p].user)
      /\ getUserSessionCount(req[p].user) = Cardinality(req[p].snap)

\* C14: no refresh token ever authorizes, and no access token ever passes
\* refresh validation.
C14_KindsApart ==
  \A c \in issued :
    /\ verifyAccessToken(c.refresh).status # "ok"
    /\ validateRefreshToken(c.access).status # "ok"

\* A logout presented an unexpired, unrevoked refresh token as the access
\* token and was rejected.
C14_Witness ==
  \E p \in Procs :
    /\ Done(p, "logout")
    /\ req[p].res = "Invalid"
    /\ \E c \in issued : validateRefreshToken(c.refresh).status = "ok"

C16_EveryKeyHasTTL ==
  /\ \A k \in DOMAIN rt : rt[k] # NoTTL
  /\ \A t \in DOMAIN bl : bl[t] # NoTTL
  /\ \A u \in Users : DOMAIN sessions[u] # {} => sessTTL[u] # NoTTL
  /\ \A k \in DOMAIN rate : rate[k].ttl # NoTTL

\* C18: however the steps of concurrent logins of one user interleave, the
\* user never has more than MAX_SESSIONS_PER_USER + 1 sessions.
C18_OvershootByOne ==
  \A u \in Users : getUserSessionCount(u) <= MAX_SESSIONS_PER_USER + 1

\* C19: once revokeAll has deleted the user's collection, every tokenId of
\* its snapshot is blacklisted: the markers are written before the delete.
C19_BlacklistBeforeDelete ==
  \A p \in Procs :
    (req[p].op = "revokeAll" /\ req[p].pc \in {"allExp", "done"}) =>
      \A t \in req[p].snap :
        <<t, "revokeAll">> \in blBy /\ isTokenBlacklisted(t)

\* The collection has just been deleted and the markers have no expiry yet.
C19_Witness ==
  \E p \in Procs :
    /\ req[p].op = "revokeAll"
    /\ req[p].pc = "allExp"
    /\ req[p].snap # {}
    /\ req[p].todo = req[p].snap
    /\ getUserSessions(req[p].user) = {}

\* C20: every gate call adds one to the counter of its key and sets the
\* counter's expiry a full window ahead; and a call on a key whose count
\* has exceeded max, each call so far having come before the counter
\* expired, is rejected.
C20_Step ==
  \A p \in Procs :
    /\ (gate[p].pc = "idle" /\ gate'[p].pc = "expire") =>
         LET k == RateKey(gate'[p].config, gate'[p].ip) IN
         /\ rate'[k].count =
              (IF k \in DOMAIN rate THEN rate[k].count ELSE 0) + 1
         /\ gate'[p].requests = rate'[k].count
    /\ (gate[p].pc = "expire" /\ gate'[p].pc = "done"
          /\ gate'[p].store = "ok") =>
         LET k == RateKey(gate[p].config, gate[p].ip) IN
         /\ k \in DOMAIN rate'
         /\ rate'[k].ttl = now + WindowSeconds(gate[p].config)

C20_Rejected ==
  \A p \in Procs :
    (gate[p].pc = "done" /\ gate[p].store = "ok"
       /\ gate[p].call > gate[p].config.max) =>
      gate[p].res # "Allowed"

C20_StaysRejected == []C20_Rejected /\ [][C20_Step]_vars

\* A second call over the limit, made a second after the clock started and
\* before the counter expired, has been rejected.
C20_Witness ==
  \E p \in Procs :
    /\ gate[p].pc = "done" /\ gate[p].store = "ok"
    /\ gate[p].call = gate[p].config.max + 2
    /\ gate[p].res # "Allowed"
    /\ now = 1
    /\ rate[RateKey(gate[p].config, gate[p].ip)].ttl
         = now + WindowSeconds(gate[p].config)

\* C21: a login rejected with CapacityExceeded writes nothing: the step that
\* rejects it leaves the session collections, the token metadata and the
\* revocation ledger as they were, and no token is issued to the request.
C21_Step ==
  \A p \in Procs :
    (req[p].pc = "idle" /\ req'[p].res = "CapacityExceeded") =>
      /\ req'[p].pc = "done"
      /\ UNCHANGED <<sessions, sessTTL, rt, bl, issued, nextId>>

C21_NoToken ==
  \A p \in Procs :
    req[p].res = "CapacityExceeded" =>
      /\ req[p].acc = NoToken /\ req[p].ref = NoToken
      /\ req[p].sid = NoId

C21_RejectedLoginWritesNothing == []C21_NoToken /\ [][C21_Step]_vars

\* A login has been rejected while the user was at the cap.
C21_Witness ==
  \E p \in Procs :
    /\ Done(p, "login")
    /\ req[p].res = "CapacityExceeded"
    /\ getUserSessionCount(req[p].user) >= MAX_SESSIONS_PER_USER

\* C22: when a revokeAll that overlapped logins or rotations of the user
\* has completed, every session entry it removed is blacklisted and the
\* access token carrying its tokenId no longer authorizes.
C22_RemovedAreBlacklisted ==
  \A p \in Procs :
    (Done(p, "revokeAll") /\ req[p].res = "ok") =>
      /\ \A t \in req[p].gone : isTokenBlacklisted(t)
      /\ \A q \in Procs :
           (req[q].op \in {"login", "refresh"} /\ req[q].sid \in req[p].gone)
             => verifyAccessToken(req[q].acc).status # "ok"

\* C23: when a rotate has ended in an error because a store command
\* failed, oldTokenId is not blacklisted and the old refresh token still
\* validates.
C23_AllOrNothing ==
  \A p \in Procs :
    (Done(p, "refresh") /\ req[p].res = "StoreError") =>
      /\ ~isTokenBlacklisted(req[p].old)
      /\ \A c \in issued :
           c.refresh.tokenId = req[p].old =>
             validateRefreshToken(c.refresh).status = "ok"

\* C24: every issued access token that authorizes carries the tokenId of a
\* session entry in its user's registry, and no logout that was authorized
\* answers NotFound.
C24_AuthorizedHasSession ==
  /\ \A c \in issued :
       verifyAccessToken(c.access).status = "ok" =>
         c.sid \in getUserSessions(c.user)
  /\ \A p \in Procs : Done(p, "logout") => req[p].res # "NotFound"

\* C25: no session entry is in a user's collection, listed or counted,
\* after its own expiryTime has passed.
C25_ExpiresOnTime ==
  \A u \in Users :
    \A t \in getUserSessions(u) : now <= sessions[u][t].expiryTime

\* C26: when no request is in flight and no key has expired, the record
\* refresh_token:{userId}:{tokenId} exists exactly when tokenId has a
\* session entry in user_sessions:{userId}.
C26_MetadataMatchesSessions ==
  ((\A p \in Procs : Free(p)) /\ ticks = 0) =>
    DOMAIN rt = {k \in Users \X KnownIds : k[2] \in getUserSessions(k[1])}

\* C27: of the gate calls made on a key since its counter was absent,
\* however their INCR and EXPIRE interleave, only calls among the first max
\* to increment are Allowed, and no two calls are the same one of them: at
\* most max calls are Allowed.
C27_AtMostMaxAllowed ==
  /\ \A p \in Procs :
       gate[p].res = "Allowed" => gate[p].call <= gate[p].config.max
  /\ \A p, q \in Procs :
       (p # q /\ gate[p].call > 0 /\ gate[q].call > 0
          /\ RateKey(gate[p].config, gate[p].ip)
               = RateKey(gate[q].config, gate[q].ip)) =>
         /\ gate[p].call # gate[q].call
         /\ gate[p].requests # gate[q].requests

\* Three calls on one key overlap around the limit: the one that made the
\* count max is Allowed and the two after it are rejected.
C27_Witness ==
  \E p, q, r \in Procs :
    /\ gate[p].pc = "done" /\ gate[q].pc = "done" /\ gate[r].pc = "done"
    /\ gate[p].config = gate[q].config /\ gate[q].config = gate[r].config
    /\ gate[p].call = gate[p].config.max /\ gate[p].res = "Allowed"
    /\ gate[q].call = gate[q].config.max + 1 /\ gate[q].res # "Allowed"
    /\ gate[r].call = gate[r].config.max + 2 /\ gate[r].res # "Allowed"

\* C28: a revoke of a tokenId that is registered under another user answers
\* NotFound and changes no session collection, no token metadata and no
\* marker of the revocation ledger.
OthersSession(user, sessionId) ==
  \E u \in Users \ {user} : sessionId \in DOMAIN sessions[u]

C28_Step ==
  \A p \in Procs :
    (/\ req[p].op = "revoke"
     /\ req[p].pc \in {"list", "hGet"}
     /\ OthersSession(req[p].user, req[p].sid)) =>
      /\ req'[p].pc = "done"
      /\ req'[p].res = "NotFound"
      /\ UNCHANGED <<sessions, sessTTL, rt, bl>>

C28_Answer ==
  \A p \in Procs :
    (Done(p, "revoke") /\ OthersSession(req[p].user, req[p].sid)) =>
      req[p].res = "NotFound"

C28_OwnSessionsOnly == []C28_Answer /\ [][C28_Step]_vars

\* u1 has asked to revoke a session of u2, which u2 still has.
C28_Witness ==
  \E p \in Procs :
    /\ Done(p, "revoke")
    /\ req[p].res = "NotFound"
    /\ OthersSession(req[p].user, req[p].sid)
    /\ \E c \in issued :
         /\ c.sid = req[p].sid
         /\ c.user # req[p].user
         /\ verifyAccessToken(c.access).status = "ok"

\* C29: whatever windowMs > 0 a limiter has, the expiry in whole seconds
\* that a gate call sets on the counter is at least 1, the counter is there
\* when the call has answered, and a call that is beyond the first max of
\* one instant is rejected.
C29_WindowTTL ==
  \A p \in Procs :
    (gate[p].pc = "done" /\ gate[p].store = "ok") =>
      LET k == RateKey(gate[p].config, gate[p].ip) IN
      /\ WindowSeconds(gate[p].config) >= 1
      /\ k \in DOMAIN rate
      /\ past[k].burst > gate[p].config.max => gate[p].res # "Allowed"

\* C30: when the clock advances by a full window of a key with no gate call
\* on it, the key's counter, whose expiry the last call set, is gone; and a
\* gate call that finds no counter is Allowed with remaining = max - 1.
C30_Step ==
  \A config \in Limiters, ip \in Ips :
    LET k == RateKey(config, ip) IN
    (/\ k \in DOMAIN rate
     /\ rate[k].ttl # NoTTL
     /\ (now' - now) * 1000 >= config.windowMs) =>
      /\ k \notin DOMAIN rate'
      /\ calls'[k] = 0

C30_Fresh ==
  \A p \in Procs :
    (gate[p].pc = "done" /\ gate[p].store = "ok" /\ gate[p].call = 1) =>
      /\ gate[p].requests = 1
      /\ gate[p].res = "Allowed"
      /\ gate[p].remaining = gate[p].config.max - 1

C30_Recovers == []C30_Fresh /\ [][C30_Step]_vars

\* A key that was over its limit at time 0 has its first call after one
\* idle window answered Allowed.
C30_Witness ==
  \E p \in Procs :
    LET k == RateKey(gate[p].config, gate[p].ip) IN
    /\ gate[p].pc = "done" /\ gate[p].store = "ok"
    /\ past[k].limited
    /\ now * 1000 = gate[p].config.windowMs
    /\ gate[p].call = 1
    /\ gate[p].res = "Allowed"
    /\ gate[p].remaining = gate[p].config.max - 1
====
